---- MODULE Spec2Model ----
(***************************************************************************)
(* Model of the asynchronous Whisper transcription server                  *)
(* (whisper_flask_server3.py): the progress_queue job store, the request   *)
(* handler (POST /transcribe, GET /progress/<id>), the per-job runner      *)
(* thread, the per-job cleanup thread and the periodic sweep thread.       *)
(*                                                                         *)
(* The HTTP server is a plain socketserver.TCPServer, so one request is    *)
(* handled at a time; runner, cleanup and sweep threads interleave with    *)
(* the handler and with each other between any two accesses to shared      *)
(* state.  time.sleep(d) is modelled as "at least d seconds".  Statements  *)
(* of one thread that touch no shared state are joined to the shared       *)
(* access that precedes or follows them.                                   *)
(***************************************************************************)
EXTENDS Integers, Sequences, FiniteSets, Bags, TLC

(* ------------------------------ bounds --------------------------------- *)
\* number of POST /transcribe requests that register a job in one behaviour
MaxJobs == 2
\* the clock advances in steps of TickLen seconds, MaxTicks times
MaxTicks == 2
\* create_srt_content is applied to at most MaxSegments segments of at most
\* MaxWords words each, with words_per_line in 0..MaxWordsPerLine
MaxSegments == 2
MaxWords == 3
MaxWordsPerLine == 3
\* format_timestamp is applied to every time of 0..MaxMillis milliseconds
MaxMillis == 1500

(* ------------------------- program constants --------------------------- *)
UnlinkDelay == 300
QueueDelay == 300
SweepInterval == 600
MaxAge == 1800

\* granularity of the modelled clock: the shortest sleep of the program
TickLen == UnlinkDelay
\* time.time() when the server starts; task ids may carry older timestamps
StartTime == MaxAge
MaxTime == StartTime + MaxTicks * TickLen
\* number of clock steps a sleep of d seconds lasts at least
SleepTicks(d) == (d + TickLen - 1) \div TickLen

(* ------------------------------ task ids ------------------------------- *)
\* A task id is a string, modelled as a sequence of characters.  The web
\* client sends Date.now().toString() (epoch milliseconds); the server
\* falls back to a uuid4 string; any client may send any text.
Digits == {"0", "1", "2", "3", "4", "5", "6", "7", "8", "9"}

DigitVal(c) ==
    CASE c = "0" -> 0 [] c = "1" -> 1 [] c = "2" -> 2 [] c = "3" -> 3
      [] c = "4" -> 4 [] c = "5" -> 5 [] c = "6" -> 6 [] c = "7" -> 7
      [] c = "8" -> 8 [] c = "9" -> 9

\* an id in the web client's format: 500000 ms, i.e. 500 s after the epoch
IdTimer == <<"5", "0", "0", "0", "0", "0">>
\* an id that is no number, such as the server's own uuid4 default
IdUuid == <<"u">>
TaskIds == {IdTimer, IdUuid}

\* int(s) for a string of decimal digits; ValueError is modelled as -1
RECURSIVE DigitsValue(_)
DigitsValue(s) ==
    IF s = <<>> THEN 0
    ELSE 10 * DigitsValue(SubSeq(s, 1, Len(s) - 1)) + DigitVal(s[Len(s)])

ParseInt(s) ==
    IF s # <<>> /\ \A k \in 1..Len(s) : s[k] \in Digits
    THEN DigitsValue(s)
    ELSE -1

\* task_id.split('_')[0]
SplitFirst(s) ==
    IF \E k \in 1..Len(s) : s[k] = "_"
    THEN LET k == CHOOSE k \in 1..Len(s) :
                      s[k] = "_" /\ \A m \in 1..(k - 1) : s[m] # "_"
         IN SubSeq(s, 1, k - 1)
    ELSE s

\* milliseconds embedded in the task id, -1 when int() raises
TaskMillis(task_id) == ParseInt(SplitFirst(task_id))

\* the test of cleanup_old_tasks: current_time - task_time > 1800, where
\* task_time = int(...) / 1000 ; both sides are scaled by 1000 here
IsOld(task_id, current_time) ==
    /\ TaskMillis(task_id) >= 0
    /\ current_time * 1000 - TaskMillis(task_id) > MaxAge * 1000

(* ----------------------------- form fields ----------------------------- *)
ModelSizes == {"medium"}

\* words_per_line when the form carries no usable value (line 782)
DefaultWordsPerLine == 6
\* values of the words_per_line form field: "0" and "-1"
WordsPerLineValues == {<<"0">>, <<"-", "1">>}

\* line 800: int(value) if value.isdigit() else 6
WordsPerLine(value) ==
    IF ParseInt(value) >= 0 THEN ParseInt(value) ELSE DefaultWordsPerLine

(* --------------------------- progress entries -------------------------- *)

\* the entry a registration would write if it followed the job state machine
\* of the design (queued, 0)
InitialProgress_Queued ==
    [status |-> "queued", progress |-> 0,
     message |-> "Archivo recibido, preparando..."]

InitialProgress ==
    [status |-> "uploading", progress |-> 10,
     message |-> "Archivo recibido, preparando..."]

LoadingModelProgress(model_size) ==
    [status |-> "loading_model", progress |-> 20,
     message |-> IF model_size = "medium" THEN "Cargando modelo medium..."
                 ELSE "Cargando modelo ..."]

\* a "transcribing" entry whose progress is an estimate of the work done
TranscribingProgress_Halfway ==
    [status |-> "transcribing", progress |-> 50,
     message |-> "Iniciando transcripcion..."]

TranscribingProgress ==
    [status |-> "transcribing", progress |-> 40,
     message |-> "Iniciando transcripcion..."]

\* a "generating" entry that already exposes the text produced so far
GeneratingProgress_Partial ==
    [status |-> "generating_srt", progress |-> 80,
     message |-> "Generando archivo SRT...", result |-> "srt"]

GeneratingProgress ==
    [status |-> "generating_srt", progress |-> 80,
     message |-> "Generando archivo SRT..."]

CompletedProgress ==
    [status |-> "completed", progress |-> 100,
     message |-> "Transcripcion completada",
     result |-> "srt", segments_count |-> 1, detected_language |-> "es"]

ErrorProgress ==
    [status |-> "error", progress |-> 0, message |-> "Error: ..."]

NotFoundProgress ==
    [status |-> "not_found", progress |-> 0, message |-> "Tarea no encontrada"]

(* ------------------------- dictionary operations ----------------------- *)
\* an update in place that rewrites status and progress of an existing
\* entry and leaves its other fields as they were
SetItem_InPlace(q, task_id, entry) ==
    IF task_id \in DOMAIN q
    THEN [q EXCEPT ![task_id] = [@ EXCEPT !.status = entry.status,
                                          !.progress = entry.progress]]
    ELSE [k \in (DOMAIN q) \cup {task_id} |-> IF k = task_id THEN entry ELSE q[k]]

\* progress_queue[task_id] = entry : binds the key to a new dict object
SetItem(q, task_id, entry) ==
    [k \in (DOMAIN q) \cup {task_id} |-> IF k = task_id THEN entry ELSE q[k]]

\* del progress_queue[task_id]
DelItem(q, task_id) == [k \in (DOMAIN q) \ {task_id} |-> q[k]]

(* ------------------- timecodes: format_timestamp ----------------------- *)
\* A time is a Python float.  The float nearest to a decimal number of
\* milliseconds is kept as its integer part and the bits of its fraction
\* (most significant first), exactly as IEEE 754 binary64 holds it: the
\* significand has Precision bits, ties round to even.
Precision == 53

\* the number of bits of a natural number
BitLength(i) == Cardinality({n \in 0..30 : 2^n <= i})

\* 2^j modulo 1000, by repeated squaring
RECURSIVE PowerOfTwo(_)
PowerOfTwo(j) ==
    IF j = 0 THEN 1
    ELSE IF j % 2 = 1 THEN (2 * PowerOfTwo(j - 1)) % 1000
    ELSE (PowerOfTwo(j \div 2) * PowerOfTwo(j \div 2)) % 1000

\* 2^(j - 1) modulo 1000 at place j, for every place a fraction can have
PowersOfTwo == <<>> \o [j \in 1..(Precision + 11) |-> PowerOfTwo(j - 1)]

\* what is left of r / 1000 below its first j binary places, times 1000 * 2^j
Remainder(r, j) == (r * PowersOfTwo[j + 1]) % 1000

\* the binary places of the fraction that fit the significand: sig bits are
\* taken by the integer part; the zeros that lead a number below 1 are free
Places(r, sig) ==
    IF sig > 0 THEN Precision - sig
    ELSE Precision + Cardinality({j \in 1..10 : r * 2^j < 1000})

\* the first binary places of r / 1000
Expansion(r, places) ==
    <<>> \o [j \in 1..places |-> (2 * Remainder(r, j - 1)) \div 1000]

\* the last place of a bit sequence that holds b, 0 when none does
Last(bits, b) ==
    Cardinality({j \in 1..Len(bits) : \E k \in j..Len(bits) : bits[k] = b})

\* the places of an expansion up to its last 1 when nothing is left below
\* it, all of them otherwise; r is what is left to expand
CutBits(r, bits, last) ==
    IF Remainder(r, last) = 0 THEN [bits |-> SubSeq(bits, 1, last), r |-> 0]
    ELSE [bits |-> bits, r |-> Remainder(r, Len(bits))]

CutExpansion(r, bits) == CutBits(r, bits, Last(bits, 1))

\* the binary expansion of r / 1000, cut where the significand is full or
\* where nothing is left
FractionBits(r, sig) == CutExpansion(r, Expansion(r, Places(r, sig)))

\* the bits with a 1 at the place of the last 0 and zeros after it
IncrementAt(bits, last) ==
    [bits |-> <<>> \o [j \in 1..Len(bits) |->
                  IF j < last THEN bits[j] ELSE IF j = last THEN 1 ELSE 0],
     carry |-> IF last = 0 THEN 1 ELSE 0]

\* one unit in the last place more
IncrementBits(bits) == IncrementAt(bits, Last(bits, 0))

\* round to nearest, ties to even: what is left is more than half a unit
\* in the last place, or half of it and the last bit is 1
RoundsUp(int, bits, r) ==
    \/ 2 * r > 1000
    \/ 2 * r = 1000 /\ (IF bits = <<>> THEN int % 2 = 1 ELSE bits[Len(bits)] = 1)

Nearest(int, cut, inc) ==
    IF RoundsUp(int, cut.bits, cut.r) THEN [int |-> int + inc.carry, frac |-> inc.bits]
    ELSE [int |-> int, frac |-> cut.bits]

Rounded(int, cut) == Nearest(int, cut, IncrementBits(cut.bits))

\* the float nearest to millis / 1000
Double(millis) ==
    Rounded(millis \div 1000, FractionBits(millis % 1000, BitLength(millis \div 1000)))

\* the bit at place j of a fraction, 0 past its end
Bit(bits, j) == IF j <= Len(bits) THEN bits[j] ELSE 0

\* the number written by the 4 bits of a fraction from place k on
Nibble(bits, k) ==
    8 * Bit(bits, k) + 4 * Bit(bits, k + 1) + 2 * Bit(bits, k + 2) + Bit(bits, k + 3)

\* the number written by the 16 bits of a fraction from place k on
Chunk(bits, k) ==
    4096 * Nibble(bits, k) + 256 * Nibble(bits, k + 4)
        + 16 * Nibble(bits, k + 8) + Nibble(bits, k + 12)

\* 1000 times the chunk c of a fraction, plus what the chunks after it
\* carry into it
RECURSIVE ChunkProduct(_, _)
ChunkProduct(bits, c) ==
    IF 16 * (c - 1) >= Len(bits) THEN 0
    ELSE 1000 * Chunk(bits, 16 * (c - 1) + 1) + (ChunkProduct(bits, c + 1) \div 65536)

ChunkProducts(bits) ==
    <<>> \o [c \in 1..((Len(bits) + 15) \div 16) |-> ChunkProduct(bits, c)]

\* the integer part and the fraction bits of the product, from the
\* products of the chunks
ProductBits(bits, products) ==
    [int |-> IF products = <<>> THEN 0 ELSE products[1] \div 65536,
     frac |-> <<>> \o [j \in 1..Len(bits) |->
                  (products[((j - 1) \div 16) + 1] \div 2^(15 - ((j - 1) % 16))) % 2]]

\* the exact product of a fraction and 1000: integer part and fraction
\* bits, as many as the fraction has
TimesThousand(bits) == ProductBits(bits, ChunkProducts(bits))

LeadingZeros(bits) ==
    Cardinality({j \in 1..Len(bits) : \A k \in 1..j : bits[k] = 0})

\* the bits of the fraction of a product that the significand keeps
Kept(product) ==
    IF product.int > 0 THEN Precision - BitLength(product.int)
    ELSE Precision + LeadingZeros(product.frac)

\* the rounding of the product carries into its integer part when all the
\* fraction bits that are kept and the first one dropped are 1
Carries(product, kept) ==
    /\ Len(product.frac) > kept
    /\ \A k \in 1..(kept + 1) : product.frac[k] = 1

Truncated(product) ==
    product.int + (IF Carries(product, Kept(product)) THEN 1 ELSE 0)

\* line 44: int((seconds % 1) * 1000).  seconds % 1 is exact; the product is
\* rounded to Precision significant bits; int() then truncates.
Milliseconds(frac) == Truncated(TimesThousand(frac))

\* str(n) for n >= 0
RECURSIVE Decimal(_)
Decimal(n) ==
    IF n < 10 THEN <<CHOOSE c \in Digits : DigitVal(c) = n>>
    ELSE Append(Decimal(n \div 10), CHOOSE c \in Digits : DigitVal(c) = n % 10)

\* f"{n:0{width}d}"
RECURSIVE ZeroPad(_, _)
ZeroPad(digits, width) ==
    IF Len(digits) >= width THEN digits ELSE ZeroPad(<<"0">> \o digits, width)

\* format_timestamp(seconds), lines 42-46; // and % of floats are exact, so
\* hours, minutes and secs come from the integer part
FormatTimestamp(seconds) ==
    LET hours == seconds.int \div 3600
        minutes == (seconds.int % 3600) \div 60
        secs == seconds.int % 60
        milliseconds == Milliseconds(seconds.frac)
    IN ZeroPad(Decimal(hours), 2) \o <<":">> \o ZeroPad(Decimal(minutes), 2)
           \o <<":">> \o ZeroPad(Decimal(secs), 2)
           \o <<",">> \o ZeroPad(Decimal(milliseconds), 3)

(* ---------------------- segmenter: create_srt_content ----------------- *)
\* The engine result is a list of segments; a segment may carry a list of
\* words, each with 'start', 'end' (a decimal number of milliseconds here,
\* which stands for the float nearest to it) and 'word' (a string,
\* modelled as a sequence of characters, usually with a leading space).
WordTexts == {<<" ", "a">>, <<"b", " ">>}

\* str.strip() for the space character
Strip_Identity(w) == w

RECURSIVE Strip(_)
Strip(w) ==
    IF w = <<>> THEN w
    ELSE IF Head(w) = " " THEN Strip(Tail(w))
    ELSE IF w[Len(w)] = " " THEN Strip(SubSeq(w, 1, Len(w) - 1))
    ELSE w

\* ' '.join(strings)
RECURSIVE Join(_)
Join(strings) ==
    IF strings = <<>> THEN <<>>
    ELSE IF Len(strings) = 1 THEN strings[1]
    ELSE strings[1] \o <<" ">> \o Join(Tail(strings))

\* a join that ends every line with a newline
RECURSIVE JoinLines_Terminated(_)
JoinLines_Terminated(lines) ==
    IF lines = <<>> THEN <<>>
    ELSE lines[1] \o <<"\n">> \o JoinLines_Terminated(Tail(lines))

\* '\n'.join(lines), line 83
RECURSIVE JoinLines(_)
JoinLines(lines) ==
    IF lines = <<>> THEN <<>>
    ELSE IF Len(lines) = 1 THEN lines[1]
    ELSE lines[1] \o <<"\n">> \o JoinLines(Tail(lines))

\* lines 61-64, the inner while: words[i] is appended, trimmed, while words
\* are left and word_count < words_per_line (i counts from 0 as in the code)
RECURSIVE TakeLine_OneMore(_, _, _, _, _)
TakeLine_OneMore(words, i, word_count, words_per_line, line_words) ==
    IF i < Len(words) /\ word_count <= words_per_line
    THEN TakeLine_OneMore(words, i + 1, word_count + 1, words_per_line,
                          Append(line_words, Strip(words[i + 1].word)))
    ELSE [i |-> i, line_words |-> line_words]

RECURSIVE TakeLine(_, _, _, _, _)
TakeLine(words, i, word_count, words_per_line, line_words) ==
    IF i < Len(words) /\ word_count < words_per_line
    THEN TakeLine(words, i + 1, word_count + 1, words_per_line,
                  Append(line_words, Strip(words[i + 1].word)))
    ELSE [i |-> i, line_words |-> line_words]

\* a cue that ends where its first word ends
Cue_EndOfFirstWord(subtitle_index, words, i, line) ==
    [index |-> subtitle_index,
     start |-> words[i + 1].start,
     end |-> words[i + 1].end,
     timing |-> FormatTimestamp(Double(words[i + 1].start)) \o <<" ", "-", "-", ">", " ">>
                    \o FormatTimestamp(Double(words[i + 1].end)),
     line_words |-> line.line_words,
     text |-> Join(line.line_words)]

\* lines 58-76: the cue of one group of words: its index, the times of its
\* first and last word, the line "start --> end" and the text; line_words
\* is kept with the cue
Cue(subtitle_index, words, i, line) ==
    [index |-> subtitle_index,
     start |-> words[i + 1].start,
     end |-> words[line.i].end,
     timing |-> FormatTimestamp(Double(words[i + 1].start)) \o <<" ", "-", "-", ">", " ">>
                    \o FormatTimestamp(Double(words[line.i].end)),
     line_words |-> line.line_words,
     text |-> Join(line.line_words)]

\* an outer while that does not count the cues
RECURSIVE SegmentCues_SameIndex(_, _, _, _, _)
SegmentCues_SameIndex(words, i, words_per_line, subtitle_index, cues) ==
    IF i < Len(words)
    THEN LET line == TakeLine(words, i, 0, words_per_line, <<>>)
         IN IF line.i = i
            THEN [returns |-> FALSE, cues |-> cues, subtitle_index |-> subtitle_index]
            ELSE SegmentCues_SameIndex(words, line.i, words_per_line, subtitle_index,
                                       Append(cues, Cue(subtitle_index, words, i, line)))
    ELSE [returns |-> TRUE, cues |-> cues, subtitle_index |-> subtitle_index]

\* lines 56-78, the outer while over the words of one segment; line 78
\* counts the cue.  When the inner while takes no word, i never advances and
\* the loop never ends: returns is FALSE.
RECURSIVE SegmentCues(_, _, _, _, _)
SegmentCues(words, i, words_per_line, subtitle_index, cues) ==
    IF i < Len(words)
    THEN LET line == TakeLine(words, i, 0, words_per_line, <<>>)
         IN IF line.i = i
            THEN [returns |-> FALSE, cues |-> cues, subtitle_index |-> subtitle_index]
            ELSE SegmentCues(words, line.i, words_per_line, subtitle_index + 1,
                             Append(cues, Cue(subtitle_index, words, i, line)))
    ELSE [returns |-> TRUE, cues |-> cues, subtitle_index |-> subtitle_index]

\* a loop over the segments that gives a number to a skipped segment too
RECURSIVE SegmentsCues_CountsSkipped(_, _, _, _, _)
SegmentsCues_CountsSkipped(segments, k, words_per_line, subtitle_index, cues) ==
    IF k > Len(segments) THEN [returns |-> TRUE, cues |-> cues]
    ELSE IF "words" \notin DOMAIN segments[k]
    THEN SegmentsCues_CountsSkipped(segments, k + 1, words_per_line,
                                    subtitle_index + 1, cues)
    ELSE LET done == SegmentCues(segments[k].words, 0, words_per_line,
                                 subtitle_index, cues)
         IN IF done.returns
            THEN SegmentsCues_CountsSkipped(segments, k + 1, words_per_line,
                                            done.subtitle_index, done.cues)
            ELSE [returns |-> FALSE, cues |-> done.cues]

\* lines 52-78, the loop over the segments; a segment without 'words' is
\* skipped (lines 53-54)
RECURSIVE SegmentsCues(_, _, _, _, _)
SegmentsCues(segments, k, words_per_line, subtitle_index, cues) ==
    IF k > Len(segments) THEN [returns |-> TRUE, cues |-> cues]
    ELSE IF "words" \notin DOMAIN segments[k]
    THEN SegmentsCues(segments, k + 1, words_per_line, subtitle_index, cues)
    ELSE LET done == SegmentCues(segments[k].words, 0, words_per_line,
                                 subtitle_index, cues)
         IN IF done.returns
            THEN SegmentsCues(segments, k + 1, words_per_line,
                              done.subtitle_index, done.cues)
            ELSE [returns |-> FALSE, cues |-> done.cues]

\* lines 72-75: the four lines appended to srt_content for the cues from
\* position j on
RECURSIVE SrtLines(_, _)
SrtLines(cues, j) ==
    IF j > Len(cues) THEN <<>>
    ELSE <<Decimal(cues[j].index), cues[j].timing, cues[j].text, <<>>>>
             \o SrtLines(cues, j + 1)

\* create_srt_content(segments, words_per_line): the cues in output order
\* and the text returned (line 83)
CreateSrtContent(segments, words_per_line) ==
    LET done == SegmentsCues(segments, 1, words_per_line, 1, <<>>)
    IN [returns |-> done.returns, cues |-> done.cues,
        text |-> JoinLines(SrtLines(done.cues, 1))]

(* -------------------------------- state -------------------------------- *)
VARIABLES
    progress_queue,  \* the job store: task id -> entry
    fresh,           \* ids whose present entry was written by registration only
    model_cache,     \* set of model sizes already loaded
    now,             \* time.time(), in seconds
    jobs,            \* bag of the jobs whose runner or cleanup thread is alive
    submitted,       \* number of requests that registered a job so far
    hpc,             \* position of the (single) request handler thread
    response,        \* the HTTP response sent by the step just taken, if any
    sweep,           \* state of the cleanup_old_tasks thread
    srt_call         \* a call of create_srt_content or of format_timestamp
                     \* taken on its own

server_vars == <<progress_queue, fresh, model_cache, now, jobs, submitted,
                 hpc, response, sweep>>
vars == <<progress_queue, fresh, model_cache, now, jobs, submitted, hpc,
          response, sweep, srt_call>>

NoBody == [status |-> "none", progress |-> 0, message |-> ""]
NoResponse == [kind |-> "none", code |-> 0, task |-> <<>>, body |-> NoBody]

\* the handler thread between two requests
Idle == [pc |-> "idle", task_id |-> <<>>]

Present(task_id) == task_id \in DOMAIN progress_queue

\* progress_queue[task_id] = entry
Store(task_id, entry) ==
    progress_queue' = SetItem(progress_queue, task_id, entry)

\* del progress_queue[task_id]
Remove(task_id) ==
    /\ progress_queue' = DelItem(progress_queue, task_id)
    /\ fresh' = fresh \ {task_id}

SweepState(pc, sleep, current_time, size, tasks_to_remove) ==
    [pc |-> pc, sleep |-> sleep, current_time |-> current_time, size |-> size,
     tasks_to_remove |-> tasks_to_remove]

NoCall == [pc |-> "none"]

ServerInit ==
    /\ progress_queue = [k \in {} |-> InitialProgress]
    /\ fresh = {}
    /\ model_cache = {}
    /\ now = StartTime
    /\ jobs = EmptyBag
    /\ submitted = 0
    /\ hpc = Idle
    /\ response = NoResponse
    /\ sweep = SweepState("sleep", SleepTicks(SweepInterval), 0, 0, {})

Init == ServerInit /\ srt_call = NoCall

(* ------------------------------- helpers ------------------------------- *)
Jobs == BagToSet(jobs)

\* the modelled clock stops at MaxTime
ClockAtBound == now + TickLen > MaxTime
\* time.sleep has returned once the clock steps it lasts at least have passed
Elapsed(sleep) == sleep = 0

\* a job whose two threads have ended is no longer tracked
Ended(job) == job.rpc = "done" /\ job.cpc \in {"done", "failed"}

Replace(job, new) ==
    IF Ended(new) THEN jobs (-) SetToBag({job})
    ELSE (jobs (-) SetToBag({job})) (+) SetToBag({new})

\* the temporary file of a job exists until its cleanup thread unlinks it
FileExists(job) == job.cpc \in {"sleep_unlink", "failed"}

\* a store write by the runner of a job
RunnerWrite(job, entry, next_pc) ==
    /\ Store(job.id, entry)
    /\ fresh' = fresh \ {job.id}
    /\ jobs' = Replace(job, [job EXCEPT !.rpc = next_pc])

(* ------------------------------ the clock ------------------------------ *)
Slept(n) == IF n > 0 THEN n - 1 ELSE 0

Tick ==
    /\ ~ClockAtBound
    /\ now' = now + TickLen
    /\ jobs' = BagOfAll(LAMBDA job : [job EXCEPT !.sleep = Slept(@)], jobs)
    /\ sweep' = [sweep EXCEPT !.sleep = Slept(@)]
    /\ response' = NoResponse
    /\ UNCHANGED <<progress_queue, fresh, model_cache, submitted, hpc>>

(* ----------------------- POST /transcribe handler ---------------------- *)
\* lines 760-821: empty body, missing boundary or no audio part: HTTP 400
BadRequests == {"no_content", "no_boundary", "no_audio"}

\* a handler that registers the job before it validates the request
HandleTranscribeReject_Registers(kind) ==
    /\ hpc = Idle
    /\ kind \in BadRequests
    /\ Store(IdUuid, InitialProgress)
    /\ fresh' = fresh \cup {IdUuid}
    /\ response' = [kind |-> "transcribe", code |-> 400, task |-> <<>>,
                    body |-> [NoBody EXCEPT !.status = "error"]]
    /\ UNCHANGED <<model_cache, now, jobs, submitted, hpc, sweep>>

HandleTranscribeReject(kind) ==
    /\ hpc = Idle
    /\ kind \in BadRequests
    /\ response' = [kind |-> "transcribe", code |-> 400, task |-> <<>>,
                    body |-> [NoBody EXCEPT !.status = "error"]]
    /\ UNCHANGED <<progress_queue, fresh, model_cache, now, jobs,
                   submitted, hpc, sweep>>

\* lines 796-861: the form is parsed, the entry is written, the upload is
\* saved to a temporary file, the runner thread and the cleanup thread are
\* started
HandleTranscribe(task_id, model_size, value) ==
    /\ hpc = Idle
    /\ submitted < MaxJobs
    /\ Store(task_id, InitialProgress)
    /\ fresh' = fresh \cup {task_id}
    /\ jobs' = jobs (+) SetToBag({[id |-> task_id, model_size |-> model_size,
                                   words_per_line |-> WordsPerLine(value),
                                   rpc |-> "start", cpc |-> "sleep_unlink",
                                   sleep |-> SleepTicks(UnlinkDelay)]})
    /\ submitted' = submitted + 1
    /\ hpc' = [pc |-> "started", task_id |-> task_id]
    /\ response' = NoResponse
    /\ UNCHANGED <<model_cache, now, sweep>>

\* a handler that joins the runner thread before it answers
HandleTranscribeRespond_Joins ==
    /\ hpc.pc = "started"
    /\ \A job \in BagToSet(jobs) : job.id = hpc.task_id => job.rpc = "done"
    /\ hpc' = Idle
    /\ response' = [kind |-> "transcribe", code |-> 200, task |-> hpc.task_id,
                    body |-> [NoBody EXCEPT !.status = "started"]]
    /\ UNCHANGED <<progress_queue, fresh, model_cache, now, jobs,
                   submitted, sweep>>

\* lines 863-874: HTTP 200 with status "started" and the task id; the
\* handler waits for nothing between starting the threads and this
HandleTranscribeRespond ==
    /\ hpc.pc = "started"
    /\ hpc' = Idle
    /\ response' = [kind |-> "transcribe", code |-> 200, task |-> hpc.task_id,
                    body |-> [NoBody EXCEPT !.status = "started"]]
    /\ UNCHANGED <<progress_queue, fresh, model_cache, now, jobs,
                   submitted, sweep>>

\* a handler that takes the entry back when saving the upload raises
HandleTranscribeFault_Unregisters(task_id) ==
    /\ hpc = Idle
    /\ submitted < MaxJobs
    /\ Remove(task_id)
    /\ submitted' = submitted + 1
    /\ response' = [kind |-> "transcribe", code |-> 500, task |-> task_id,
                    body |-> [NoBody EXCEPT !.status = "error"]]
    /\ UNCHANGED <<model_cache, now, jobs, hpc, sweep>>

\* lines 826-836 and 876-878: the entry is written, then saving the upload
\* raises: no thread is started, HTTP 500
HandleTranscribeFault(task_id) ==
    /\ hpc = Idle
    /\ submitted < MaxJobs
    /\ Store(task_id, InitialProgress)
    /\ fresh' = fresh \cup {task_id}
    /\ submitted' = submitted + 1
    /\ response' = [kind |-> "transcribe", code |-> 500, task |-> task_id,
                    body |-> [NoBody EXCEPT !.status = "error"]]
    /\ UNCHANGED <<model_cache, now, jobs, hpc, sweep>>

(* ----------------------- GET /progress/<id> handler -------------------- *)
\* a poll that waits while a runner is inside the model load or the engine
ServeProgressCheck_Locked(task_id) ==
    /\ hpc = Idle
    /\ \A job \in BagToSet(jobs) : job.rpc \notin {"load_model", "engine"}
    /\ IF Present(task_id)
       THEN /\ hpc' = [pc |-> "progress_found", task_id |-> task_id]
            /\ response' = NoResponse
       ELSE /\ hpc' = Idle
            /\ response' = [kind |-> "progress", code |-> 200, task |-> task_id,
                            body |-> NotFoundProgress]
    /\ UNCHANGED <<progress_queue, fresh, model_cache, now, jobs,
                   submitted, sweep>>

\* line 741: if task_id in progress_queue  (else branch: lines 744-754)
ServeProgressCheck(task_id) ==
    /\ hpc = Idle
    /\ IF Present(task_id)
       THEN /\ hpc' = [pc |-> "progress_found", task_id |-> task_id]
            /\ response' = NoResponse
       ELSE /\ hpc' = Idle
            /\ response' = [kind |-> "progress", code |-> 200, task |-> task_id,
                            body |-> NotFoundProgress]
    /\ UNCHANGED <<progress_queue, fresh, model_cache, now, jobs,
                   submitted, sweep>>

\* line 742: progress_data = progress_queue[task_id], then lines 750-754.
\* A KeyError (the key was deleted since the test of line 741) leaves
\* do_GET: the connection is closed without any HTTP response.
ServeProgressRead ==
    /\ hpc.pc = "progress_found"
    /\ IF Present(hpc.task_id)
       THEN response' = [kind |-> "progress", code |-> 200, task |-> hpc.task_id,
                         body |-> progress_queue[hpc.task_id]]
       ELSE response' = [kind |-> "progress", code |-> 0, task |-> hpc.task_id,
                         body |-> [NoBody EXCEPT !.status = "KeyError"]]
    /\ hpc' = Idle
    /\ UNCHANGED <<progress_queue, fresh, model_cache, now, jobs,
                   submitted, sweep>>

(* ------------------ runner: transcribe_audio_with_progress ------------- *)
\* lines 89-93, then get_model is entered
RunnerLoadingModel(job) ==
    /\ job.rpc = "start"
    /\ RunnerWrite(job, LoadingModelProgress(job.model_size), "get_model")
    /\ response' = NoResponse
    /\ UNCHANGED <<model_cache, now, submitted, hpc, sweep>>

\* line 34: the model is not in the cache; whisper.load_model is called
\* (line 36)
RunnerCacheMiss(job) ==
    /\ job.rpc = "get_model"
    /\ job.model_size \notin model_cache
    /\ jobs' = Replace(job, [job EXCEPT !.rpc = "load_model"])
    /\ response' = NoResponse
    /\ UNCHANGED <<progress_queue, fresh, model_cache, now, submitted,
                   hpc, sweep>>

\* get_model returns the handle: either the model was in the cache (lines
\* 34, 38) or whisper.load_model returns and the handle is stored (line 36);
\* then lines 98-102
RunnerTranscribing(job) ==
    /\ \/ job.rpc = "get_model" /\ job.model_size \in model_cache
       \/ job.rpc = "load_model"
    /\ model_cache' = model_cache \cup {job.model_size}
    /\ RunnerWrite(job, TranscribingProgress, "transcribe")
    /\ response' = NoResponse
    /\ UNCHANGED <<now, submitted, hpc, sweep>>

\* line 36 raises (whisper.load_model fails); lines 131-136
RunnerLoadModelFails(job) ==
    /\ job.rpc = "load_model"
    /\ RunnerWrite(job, ErrorProgress, "done")
    /\ response' = NoResponse
    /\ UNCHANGED <<model_cache, now, submitted, hpc, sweep>>

\* lines 105-110: the engine opens the temporary file and decodes the audio
RunnerReadAudio(job) ==
    /\ job.rpc = "transcribe"
    /\ FileExists(job)
    /\ jobs' = Replace(job, [job EXCEPT !.rpc = "engine"])
    /\ response' = NoResponse
    /\ UNCHANGED <<progress_queue, fresh, model_cache, now, submitted,
                   hpc, sweep>>

\* a runner that records the error and tries again from get_model
RunnerTranscribeFails_Retry(job) ==
    /\ job.rpc \in {"transcribe", "engine"}
    /\ RunnerWrite(job, ErrorProgress, "get_model")
    /\ response' = NoResponse
    /\ UNCHANGED <<model_cache, now, submitted, hpc, sweep>>

\* lines 105-110 raise (file missing, undecodable audio, engine error);
\* lines 131-136
RunnerTranscribeFails(job) ==
    /\ job.rpc \in {"transcribe", "engine"}
    /\ RunnerWrite(job, ErrorProgress, "done")
    /\ response' = NoResponse
    /\ UNCHANGED <<model_cache, now, submitted, hpc, sweep>>

\* a runner that goes on to the segmenter without the write of the phase
RunnerGenerating_Silent(job) ==
    /\ job.rpc = "engine"
    /\ jobs' = Replace(job, [job EXCEPT !.rpc = "create_srt"])
    /\ response' = NoResponse
    /\ UNCHANGED <<progress_queue, fresh, model_cache, now, submitted,
                   hpc, sweep>>

\* lines 105-110 return, lines 113-117
RunnerGenerating(job) ==
    /\ job.rpc = "engine"
    /\ RunnerWrite(job, GeneratingProgress, "create_srt")
    /\ response' = NoResponse
    /\ UNCHANGED <<model_cache, now, submitted, hpc, sweep>>

\* lines 119-129: create_srt_content returns (with words_per_line 0 it
\* returns only when the result carries no word), then the final write
RunnerCompleted(job) ==
    /\ job.rpc = "create_srt"
    /\ RunnerWrite(job, CompletedProgress, "done")
    /\ response' = NoResponse
    /\ UNCHANGED <<model_cache, now, submitted, hpc, sweep>>

\* line 119 raises (a word without 'start', 'end' or 'word'); lines 131-136
RunnerCreateSrtFails(job) ==
    /\ job.rpc = "create_srt"
    /\ RunnerWrite(job, ErrorProgress, "done")
    /\ response' = NoResponse
    /\ UNCHANGED <<model_cache, now, submitted, hpc, sweep>>

(* ----------------- per-job cleanup thread: cleanup_temp_file ----------- *)
\* lines 848-853: sleep 300 s, os.unlink(temp_path), sleep again
CleanupUnlink(job) ==
    /\ job.cpc = "sleep_unlink"
    /\ Elapsed(job.sleep)
    /\ jobs' = Replace(job, [job EXCEPT !.cpc = "sleep_delete",
                                        !.sleep = SleepTicks(QueueDelay)])
    /\ response' = NoResponse
    /\ UNCHANGED <<progress_queue, fresh, model_cache, now, submitted,
                   hpc, sweep>>

\* line 851 raises (e.g. the file is in use): "except: pass" (lines
\* 856-857) ends the thread, which then never deletes the entry
CleanupUnlinkFails(job) ==
    /\ job.cpc = "sleep_unlink"
    /\ Elapsed(job.sleep)
    /\ jobs' = Replace(job, [job EXCEPT !.cpc = "failed", !.sleep = 0])
    /\ response' = NoResponse
    /\ UNCHANGED <<progress_queue, fresh, model_cache, now, submitted,
                   hpc, sweep>>

\* a cleanup thread that empties the whole store
CleanupDelete_Clear(job) ==
    /\ job.cpc = "sleep_delete"
    /\ Elapsed(job.sleep)
    /\ progress_queue' = << >>
    /\ fresh' = {}
    /\ jobs' = Replace(job, [job EXCEPT !.cpc = "done", !.sleep = 0])
    /\ response' = NoResponse
    /\ UNCHANGED <<model_cache, now, submitted, hpc, sweep>>

\* lines 853-857: after 300 s more the entry is deleted if present (a
\* KeyError between the test and the del is swallowed)
CleanupDelete(job) ==
    /\ job.cpc = "sleep_delete"
    /\ Elapsed(job.sleep)
    /\ Remove(job.id)
    /\ jobs' = Replace(job, [job EXCEPT !.cpc = "done", !.sleep = 0])
    /\ response' = NoResponse
    /\ UNCHANGED <<model_cache, now, submitted, hpc, sweep>>

(* -------------------- sweep thread: cleanup_old_tasks ------------------ *)
\* lines 887-891: after 600 s the clock is read and the iteration over the
\* dict starts; the iterator remembers the size of the dict
SweepStart ==
    /\ sweep.pc = "sleep"
    /\ Elapsed(sweep.sleep)
    /\ sweep' = SweepState("iterate", 0, now, Cardinality(DOMAIN progress_queue), {})
    /\ response' = NoResponse
    /\ UNCHANGED <<progress_queue, fresh, model_cache, now, jobs,
                   submitted, hpc>>

\* the ids that lines 893-898 select
OldTasks(current_time) == {task_id \in DOMAIN progress_queue : IsOld(task_id, current_time)}

\* lines 891-898 run to the end of the dict; with nothing to remove the
\* thread sleeps again (line 887)
SweepScan ==
    /\ sweep.pc = "iterate"
    /\ Cardinality(DOMAIN progress_queue) = sweep.size
    /\ sweep' = IF OldTasks(sweep.current_time) = {}
                THEN SweepState("sleep", SleepTicks(SweepInterval), 0, 0, {})
                ELSE SweepState("remove", 0, sweep.current_time, 0,
                                OldTasks(sweep.current_time))
    /\ response' = NoResponse
    /\ UNCHANGED <<progress_queue, fresh, model_cache, now, jobs,
                   submitted, hpc>>

\* line 891: the dict changed size during the iteration: RuntimeError, which
\* nothing catches: the sweep thread ends
SweepIterationError ==
    /\ sweep.pc = "iterate"
    /\ Cardinality(DOMAIN progress_queue) # sweep.size
    /\ sweep' = SweepState("dead", 0, 0, 0, {})
    /\ response' = NoResponse
    /\ UNCHANGED <<progress_queue, fresh, model_cache, now, jobs,
                   submitted, hpc>>

\* lines 900-904: del progress_queue[task_id]; after the last one the thread
\* sleeps again (line 887)
SweepRemove(task_id) ==
    /\ sweep.pc = "remove"
    /\ task_id \in sweep.tasks_to_remove
    /\ Present(task_id)
    /\ Remove(task_id)
    /\ sweep' = IF sweep.tasks_to_remove = {task_id}
                THEN SweepState("sleep", SleepTicks(SweepInterval), 0, 0, {})
                ELSE [sweep EXCEPT !.tasks_to_remove = @ \ {task_id}]
    /\ response' = NoResponse
    /\ UNCHANGED <<model_cache, now, jobs, submitted, hpc>>

\* line 901: KeyError (the per-job cleanup deleted the key first), which
\* nothing catches: the sweep thread ends
SweepRemoveError(task_id) ==
    /\ sweep.pc = "remove"
    /\ task_id \in sweep.tasks_to_remove
    /\ ~Present(task_id)
    /\ sweep' = SweepState("dead", 0, 0, 0, {})
    /\ response' = NoResponse
    /\ UNCHANGED <<progress_queue, fresh, model_cache, now, jobs,
                   submitted, hpc>>

(* --------------------------- specification ----------------------------- *)
Handler ==
    \/ \E kind \in BadRequests : HandleTranscribeReject(kind)
    \/ \E task_id \in TaskIds, model_size \in ModelSizes,
          value \in WordsPerLineValues :
           HandleTranscribe(task_id, model_size, value)
    \/ HandleTranscribeRespond
    \/ \E task_id \in TaskIds : HandleTranscribeFault(task_id)
    \/ \E task_id \in TaskIds : ServeProgressCheck(task_id)
    \/ ServeProgressRead

Runner(job) ==
    \/ RunnerLoadingModel(job)
    \/ RunnerCacheMiss(job)
    \/ RunnerTranscribing(job)
    \/ RunnerLoadModelFails(job)
    \/ RunnerReadAudio(job)
    \/ RunnerTranscribeFails(job)
    \/ RunnerGenerating(job)
    \/ RunnerCompleted(job)
    \/ RunnerCreateSrtFails(job)

Cleanup(job) ==
    \/ CleanupUnlink(job)
    \/ CleanupUnlinkFails(job)
    \/ CleanupDelete(job)

Sweep ==
    \/ SweepStart
    \/ SweepScan
    \/ SweepIterationError
    \/ \E task_id \in TaskIds : SweepRemove(task_id)
    \/ \E task_id \in TaskIds : SweepRemoveError(task_id)

Next ==
    \/ Tick /\ UNCHANGED srt_call
    \/ Handler /\ UNCHANGED srt_call
    \/ (\E job \in Jobs : Runner(job)) /\ UNCHANGED srt_call
    \/ (\E job \in Jobs : Cleanup(job)) /\ UNCHANGED srt_call
    \/ Sweep /\ UNCHANGED srt_call

Spec == Init /\ [][Next]_vars

(* ---------------- create_srt_content applied to bounded inputs --------- *)
\* the times of the word at position n (from 0) of segment k (from 1)
Word(k, n, text) ==
    [start |-> 10000 * (k - 1) + 500 * n,
     end |-> 10000 * (k - 1) + 500 * n + 400,
     word |-> text]

WordLists == UNION {[1..n -> WordTexts] : n \in 0..MaxWords}

\* a segment without word timestamps
NoWordsSegment == [text |-> <<"a">>]

\* the shape of a segment: whether it carries words, and their texts
SegmentShapes ==
    {[has_words |-> FALSE, texts |-> <<>>]}
        \cup {[has_words |-> TRUE, texts |-> texts] : texts \in WordLists}

\* the segment of a given shape at position k of the engine result
Segment(k, shape) ==
    IF shape.has_words
    THEN [words |-> [n \in 1..Len(shape.texts) |-> Word(k, n - 1, shape.texts[n])]]
    ELSE NoWordsSegment

SegmentLists ==
    UNION {{[k \in 1..m |-> Segment(k, shapes[k])] :
                shapes \in [1..m -> SegmentShapes]} : m \in 0..MaxSegments}

SegInit ==
    /\ ServerInit
    /\ srt_call \in {[pc |-> "call", segments |-> segments,
                       words_per_line |-> words_per_line, cues |-> <<>>,
                       text |-> <<>>] :
                          segments \in SegmentLists,
                          words_per_line \in 0..MaxWordsPerLine}

\* the call returns with the cues of CreateSrtContent; a call whose loop
\* never ends takes no step
CreateSrtReturns ==
    /\ srt_call.pc = "call"
    /\ LET done == CreateSrtContent(srt_call.segments, srt_call.words_per_line)
       IN /\ done.returns
          /\ srt_call' = [srt_call EXCEPT !.pc = "returned", !.cues = done.cues,
                                          !.text = done.text]
    /\ UNCHANGED server_vars

SegNext == CreateSrtReturns

SegSpec == SegInit /\ [][SegNext]_vars

(* ------------------ format_timestamp applied to bounded inputs --------- *)
\* times in milliseconds: a dense range from 0, and 59.999 s, 1 h,
\* 1 h 2 min 5.125 s, 25 h and 100 h
TimestampInputs ==
    (0..MaxMillis) \cup {59999, 3600000, 3725125, 90000000, 360000000}

TsInit ==
    /\ ServerInit
    /\ srt_call \in {[pc |-> "format", millis |-> millis, text |-> <<>>] :
                          millis \in TimestampInputs}

\* format_timestamp(millis / 1000) returns
FormatTimestampReturns ==
    /\ srt_call.pc = "format"
    /\ srt_call' = [srt_call EXCEPT !.pc = "formatted",
                                    !.text = FormatTimestamp(Double(srt_call.millis))]
    /\ UNCHANGED server_vars

TsNext == FormatTimestampReturns

TsSpec == TsInit /\ [][TsNext]_vars

(* --------------------------- fair scheduling --------------------------- *)
\* an engine result of one segment with one word
OneWordResult == <<[words |-> <<Word(1, 0, <<" ", "a">>)>>]>>

\* whether create_srt_content returns for a result that carries words, for
\* each words_per_line the handler can pass on
SegmenterResults ==
    [words_per_line \in {WordsPerLine(value) : value \in WordsPerLineValues} |->
        CreateSrtContent(OneWordResult, words_per_line).returns]

SegmenterReturns(words_per_line) == SegmenterResults[words_per_line]

\* the steps a scheduled runner thread takes when the model load and the
\* engine call return: its writes, the calls' returns, the failure of the
\* engine on a missing file, and the return of create_srt_content
RunnerReturns(job) ==
    \/ RunnerLoadingModel(job)
    \/ RunnerCacheMiss(job)
    \/ RunnerTranscribing(job)
    \/ RunnerReadAudio(job)
    \/ ~FileExists(job) /\ RunnerTranscribeFails(job)
    \/ RunnerGenerating(job)
    \/ SegmenterReturns(job.words_per_line) /\ RunnerCompleted(job)

FairSpec ==
    Spec /\ WF_vars((\E job \in Jobs : RunnerReturns(job)) /\ UNCHANGED srt_call)

(* ------------- the synchronous server: whisper_flask_server.py --------- *)
\* requests the single-threaded server handles one after the other
MaxRequests == 2

\* words_per_line when the form carries no usable value
SyncDefaultWordsPerLine == 5
SyncWordsPerLineValues == {<<"0">>, <<"-", "1">>, <<"2">>}
SyncModelSizes == {"base", "tiny"}

\* int(value) if value.isdigit() else 5
SyncWordsPerLine(value) ==
    IF ParseInt(value) >= 0 THEN ParseInt(value) ELSE SyncDefaultWordsPerLine

\* the engine results: one segment with one word, one segment without words
SyncResults == {OneWordResult, <<NoWordsSegment>>}

\* The handler between two requests.  files counts the temporary files on
\* disk, temp_path tells whether the file of the request exists, raised
\* whether the inner try was left by an exception, and code is the first
\* status line written on the connection of the request (0: none yet).
SyncIdle(handled, files, cache, code) ==
    [pc |-> "idle", handled |-> handled, files |-> files, cache |-> cache,
     code |-> code, temp_path |-> FALSE, raised |-> FALSE,
     model_size |-> "base", words_per_line |-> SyncDefaultWordsPerLine,
     result |-> <<>>]

SyncInit ==
    /\ ServerInit
    /\ srt_call = SyncIdle(0, 0, {}, 0)

\* the handler leaves the inner try: to the finally clause
SyncLeaveTry(raised, code) ==
    srt_call' = [srt_call EXCEPT !.pc = "finally", !.raised = raised, !.code = code]

\* empty body, missing boundary or no audio part: send_error(400), return
SyncReject(kind) ==
    /\ srt_call.pc = "idle"
    /\ srt_call.handled < MaxRequests
    /\ kind \in BadRequests
    /\ srt_call' = SyncIdle(srt_call.handled + 1, srt_call.files, srt_call.cache, 400)
    /\ UNCHANGED server_vars

\* the form is parsed
SyncParse(model_size, value) ==
    /\ srt_call.pc = "idle"
    /\ srt_call.handled < MaxRequests
    /\ srt_call' = [srt_call EXCEPT !.pc = "parsed", !.code = 0,
                                    !.model_size = model_size,
                                    !.words_per_line = SyncWordsPerLine(value)]
    /\ UNCHANGED server_vars

\* tempfile.NamedTemporaryFile raises: no file is made, except branch
SyncTempFileFails ==
    /\ srt_call.pc = "parsed"
    /\ srt_call' = [srt_call EXCEPT !.pc = "except"]
    /\ UNCHANGED server_vars

\* the file is made (delete=False) and temp_file.write raises: the with
\* statement closes the file and the exception goes to the except branch,
\* outside the inner try and its finally
SyncSaveUploadFails ==
    /\ srt_call.pc = "parsed"
    /\ srt_call' = [srt_call EXCEPT !.pc = "except", !.files = @ + 1]
    /\ UNCHANGED server_vars

\* the upload is saved to the temporary file; the inner try is entered
SyncSaveUpload ==
    /\ srt_call.pc = "parsed"
    /\ srt_call' = [srt_call EXCEPT !.pc = "get_model", !.files = @ + 1,
                                    !.temp_path = TRUE]
    /\ UNCHANGED server_vars

\* get_model returns the handle, loaded if it was not in the cache
SyncGetModel ==
    /\ srt_call.pc = "get_model"
    /\ srt_call' = [srt_call EXCEPT !.pc = "transcribe",
                                    !.cache = @ \cup {srt_call.model_size}]
    /\ UNCHANGED server_vars

\* whisper.load_model raises
SyncLoadModelFails ==
    /\ srt_call.pc = "get_model"
    /\ srt_call.model_size \notin srt_call.cache
    /\ SyncLeaveTry(TRUE, 0)
    /\ UNCHANGED server_vars

\* model.transcribe returns
SyncTranscribe(result) ==
    /\ srt_call.pc = "transcribe"
    /\ srt_call' = [srt_call EXCEPT !.pc = "create_srt", !.result = result]
    /\ UNCHANGED server_vars

\* model.transcribe raises
SyncTranscribeFails ==
    /\ srt_call.pc = "transcribe"
    /\ SyncLeaveTry(TRUE, 0)
    /\ UNCHANGED server_vars

\* create_srt_content returns; a call whose loop never ends takes no step
SyncCreateSrt ==
    /\ srt_call.pc = "create_srt"
    /\ CreateSrtContent(srt_call.result, srt_call.words_per_line).returns
    /\ srt_call' = [srt_call EXCEPT !.pc = "send"]
    /\ UNCHANGED server_vars

\* result['segments'] or create_srt_content raises
SyncCreateSrtFails ==
    /\ srt_call.pc = "create_srt"
    /\ SyncLeaveTry(TRUE, 0)
    /\ UNCHANGED server_vars

\* the response is written: status 200, headers, the text
SyncSend ==
    /\ srt_call.pc = "send"
    /\ SyncLeaveTry(FALSE, 200)
    /\ UNCHANGED server_vars

\* writing the response raises, before the status line has gone out
\* (headers_sent FALSE) or after it (wfile.write of the text)
SyncSendFails(headers_sent) ==
    /\ srt_call.pc = "send"
    /\ SyncLeaveTry(TRUE, IF headers_sent THEN 200 ELSE 0)
    /\ UNCHANGED server_vars

\* finally: the file is unlinked if it exists; then the handler returns, or
\* the exception that left the try goes on to the except branch
SyncFinally ==
    /\ srt_call.pc = "finally"
    /\ LET files == IF srt_call.temp_path THEN srt_call.files - 1 ELSE srt_call.files
       IN srt_call' =
              IF srt_call.raised
              THEN [srt_call EXCEPT !.pc = "except", !.files = files,
                                    !.temp_path = FALSE]
              ELSE SyncIdle(srt_call.handled + 1, files, srt_call.cache, srt_call.code)
    /\ UNCHANGED server_vars

\* finally: os.unlink raises; the file stays and the exception goes to the
\* except branch
SyncUnlinkFails ==
    /\ srt_call.pc = "finally"
    /\ srt_call.temp_path
    /\ srt_call' = [srt_call EXCEPT !.pc = "except", !.raised = TRUE]
    /\ UNCHANGED server_vars

\* except Exception: send_error(500); the client gets it as the status of
\* the request unless a status line has gone out before
SyncExcept ==
    /\ srt_call.pc = "except"
    /\ srt_call' = SyncIdle(srt_call.handled + 1, srt_call.files, srt_call.cache,
                            IF srt_call.code = 0 THEN 500 ELSE srt_call.code)
    /\ UNCHANGED server_vars

SyncNext ==
    \/ \E kind \in BadRequests : SyncReject(kind)
    \/ \E model_size \in SyncModelSizes, value \in SyncWordsPerLineValues :
           SyncParse(model_size, value)
    \/ SyncTempFileFails
    \/ SyncSaveUploadFails
    \/ SyncSaveUpload
    \/ SyncGetModel
    \/ SyncLoadModelFails
    \/ \E result \in SyncResults : SyncTranscribe(result)
    \/ SyncTranscribeFails
    \/ SyncCreateSrt
    \/ SyncCreateSrtFails
    \/ SyncSend
    \/ \E headers_sent \in BOOLEAN : SyncSendFails(headers_sent)
    \/ SyncFinally
    \/ SyncUnlinkFails
    \/ SyncExcept

SyncSpec == SyncInit /\ [][SyncNext]_vars

(* ============================== properties ============================= *)
\* The statuses of the code in the order of the job state machine:
\* uploading (the design's "queued"), loading_model, transcribing,
\* generating_srt (the design's "generating_output"), completed; error is
\* the design's "failed".
Rank(status) ==
    CASE status = "uploading" -> 0
      [] status = "loading_model" -> 1
      [] status = "transcribing" -> 2
      [] status = "generating_srt" -> 3
      [] status = "completed" -> 4
      [] status = "error" -> 5

Terminal(status) == status \in {"completed", "error"}

Forward(old, new) ==
    \/ new = old
    \/ new = "error" /\ ~Terminal(old)
    \/ new # "error" /\ old # "error" /\ Rank(new) > Rank(old)

\* the step just taken answered a POST /transcribe
Answered(task_id) == response.kind = "transcribe" /\ response.task = task_id

\* the step registers a job under the id for a POST /transcribe: the request
\* is then answered with "started" (HTTP 200) or, when saving the upload
\* fails, with HTTP 500
Registers(task_id) ==
    \/ hpc = Idle /\ hpc'.pc = "started" /\ hpc'.task_id = task_id
    \/ Answered(task_id)' /\ response'.code = 500

\* C1: for every job id the stored status only moves forward along
\* uploading -> loading_model -> transcribing -> generating_srt -> completed,
\* or from a non-terminal status to error; it is never replaced by an
\* earlier status.
C1_StatusOnlyForward ==
    [][\A task_id \in TaskIds :
          (Present(task_id) /\ Present(task_id)')
              => Forward(progress_queue[task_id].status,
                         progress_queue'[task_id].status)]_vars

\* C2: the progress a poll of one job returns never decreases from the job's
\* creation to its eviction, also when the job fails.  A poll returns the
\* stored progress, and polls can be served before and after any step of
\* another thread, so the stored progress of an id must not decrease in any
\* step that is not a new registration.
C2_ProgressNonDecreasing ==
    [][\A task_id \in TaskIds :
          (Present(task_id) /\ Present(task_id)' /\ ~Registers(task_id))
              => progress_queue'[task_id].progress >= progress_queue[task_id].progress]_vars

\* C3: once the stored status of a job is terminal (completed or error), no
\* step other than an eviction changes any field of its entry.
C3_TerminalImmutable ==
    [][\A task_id \in TaskIds :
          (Present(task_id) /\ Terminal(progress_queue[task_id].status)
                            /\ Present(task_id)')
              => progress_queue'[task_id] = progress_queue[task_id]]_vars

\* C4: a POST /transcribe whose task id is present in the store is refused
\* (it is not accepted, so no "started" answer follows) and leaves the store
\* as it was.
C4_DuplicateRefused ==
    [][\A task_id \in TaskIds :
          (Present(task_id) /\ Registers(task_id))
              => (hpc'.pc # "started" /\ progress_queue' = progress_queue)]_vars

\* C5: an id that is absent from the store becomes present only by a new
\* POST /transcribe: a runner's update of an evicted id does not re-create
\* the entry.
C5_RunnerDoesNotRecreate ==
    [][\A task_id \in TaskIds :
          (~Present(task_id) /\ Present(task_id)') => Registers(task_id)]_vars

C7_SweepRemovesByAge ==
    sweep.tasks_to_remove # {} => sweep.current_time - StartTime > MaxAge

\* C8: every entry placed in the store is eventually removed by eviction.
\* Hence at every moment a thread that is still going to remove a stored
\* entry exists: the cleanup thread of a job with that id, or the sweep
\* thread when the id is one it can find old.
LiveCleanup(task_id) ==
    \E job \in Jobs : job.id = task_id /\ job.cpc \in {"sleep_unlink", "sleep_delete"}

SweepCanRemove(task_id) == sweep.pc # "dead" /\ TaskMillis(task_id) >= 0

C8_EveryEntryHasAnEvictor ==
    \A task_id \in TaskIds :
        Present(task_id) => (LiveCleanup(task_id) \/ SweepCanRemove(task_id))

\* the complete states that the registration and the runner write
WrittenEntries ==
    {InitialProgress, TranscribingProgress, GeneratingProgress,
     CompletedProgress, ErrorProgress}
        \cup {LoadingModelProgress(model_size) : model_size \in ModelSizes}

\* C9: under any interleaving of runner updates and polls, every stored
\* entry and every entry a poll returns is a complete state written by one
\* single update or by the registration: fields of two updates never mix.
C9_ReadsSeeWholeWrites ==
    /\ \A task_id \in DOMAIN progress_queue :
           progress_queue[task_id] \in WrittenEntries
    /\ (response.kind = "progress" /\ response.code = 200)
           => response.body \in WrittenEntries \cup {NotFoundProgress}

\* a poll has just returned the entry of a job whose runner is between two
\* of its updates
C9_Witness ==
    /\ response.kind = "progress"
    /\ response.code = 200
    /\ response.body.status \in {"loading_model", "transcribing", "generating_srt"}
    /\ \E job \in Jobs : job.id = response.task /\ job.rpc # "done"

\* C10: a poll of an id that is unknown or evicted is answered with HTTP 200
\* and the not_found entry, also when the entry is removed between the
\* poll's membership test and its read.
C10_AbsentIsNotFound ==
    (response.kind = "progress" /\ ~Present(response.task))
        => (response.code = 200 /\ response.body = NotFoundProgress)

\* the number of runner threads of the id that have not ended
ActiveRunners(task_id) ==
    LET running == {job \in Jobs : job.id = task_id /\ job.rpc # "done"}
    IN BagCardinality([job \in running |-> jobs[job]])

\* C11: a runner ends only by a terminal write that carries a message; a
\* step that puts the error state in the store ends the runner that took it
\* (no retry: the runners of the id are one fewer, and no model load or
\* engine call of it follows); and a poll of a failed job is answered with
\* HTTP 200 and the error entry, never with an HTTP error.
C11_FailureIsTerminal ==
    [][\A task_id \in TaskIds :
          /\ (ActiveRunners(task_id)' < ActiveRunners(task_id))
                 => /\ Present(task_id)'
                    /\ Terminal(progress_queue'[task_id].status)
                    /\ progress_queue'[task_id].message # ""
          /\ ( /\ Present(task_id)'
               /\ progress_queue'[task_id].status = "error"
               /\ (Present(task_id) => progress_queue[task_id].status # "error") )
                 => ActiveRunners(task_id)' = ActiveRunners(task_id) - 1
          /\ (response'.kind = "progress" /\ response'.body.status = "error")
                 => (response'.code = 200 /\ response'.body = ErrorProgress)]_vars

\* a poll has just returned the error entry of a failed job
C11_Witness ==
    /\ response.kind = "progress"
    /\ response.code = 200
    /\ response.body = ErrorProgress
    /\ ActiveRunners(response.task) = 0

ResultFields == {"result", "segments_count", "detected_language"}

\* C12: an entry of the store carries the result fields (text, segment count,
\* language), all three, exactly when its status is completed, and carries
\* the failure message only when its status is error.
C12_ResultIffCompleted ==
    \A task_id \in DOMAIN progress_queue :
        LET entry == progress_queue[task_id]
        IN /\ (entry.status = "completed") => (ResultFields \subseteq DOMAIN entry)
           /\ (entry.status # "completed") => (ResultFields \cap DOMAIN entry = {})
           /\ (entry.message = ErrorProgress.message) => (entry.status = "error")

\* a poll has just returned a completed entry with its result
C12_Witness ==
    /\ response.kind = "progress"
    /\ response.code = 200
    /\ response.body.status = "completed"
    /\ Present(response.task)
    /\ progress_queue[response.task] = response.body

\* the number of runners inside whisper.load_model for the model
Loading(model_size) ==
    LET loading == {job \in Jobs : job.model_size = model_size /\ job.rpc = "load_model"}
    IN BagCardinality([job \in loading |-> jobs[job]])

\* C13: a model is loaded at most once: never are two runners loading the
\* same model, nor is a runner loading a model that is in the cache.
C13_LoadAtMostOnce ==
    \A model_size \in ModelSizes :
        Loading(model_size) + (IF model_size \in model_cache THEN 1 ELSE 0) <= 1

\* C14: a request whose words_per_line is 0 or negative creates no job, so
\* every job that has a runner was given a positive words_per_line that the
\* request carried: never 0, and never the default in place of the value.
C14_NonPositiveRejected ==
    \A job \in Jobs : job.words_per_line > 0

\* C15: a step that answers POST /transcribe with HTTP 400 leaves the store
\* as it was and starts no runner and no cleanup thread.
C15_BadRequestCreatesNothing ==
    [][(response'.kind = "transcribe" /\ response'.code = 400)
          => (progress_queue' = progress_queue /\ jobs' = jobs
              /\ submitted' = submitted)]_vars

\* a request has just been answered with HTTP 400 while jobs are tracked
C15_Witness ==
    /\ response.kind = "transcribe"
    /\ response.code = 400
    /\ Jobs # {}
    /\ DOMAIN progress_queue # {}

\* C16 as stated: when the "started" response of a job is produced, no
\* model load and no engine call of the job has begun: a runner of the id
\* is still before its call of whisper.load_model.
C16_RespondsBeforeInference ==
    (response.kind = "transcribe" /\ response.code = 200)
        => \E job \in Jobs :
               job.id = response.task /\ job.rpc \in {"start", "get_model"}

\* C16 as amended: the "started" response is produced by the handler that
\* registered the job and started its threads, in a step of its own that
\* waits for nothing: it can be taken wherever the runner is, also after
\* the runner began the model load or the engine call.
C16_RespondsWithoutWaiting ==
    /\ [](hpc.pc = "started" =>
              ENABLED (HandleTranscribeRespond /\ UNCHANGED srt_call))
    /\ [][(response'.kind = "transcribe" /\ response'.code = 200)
              => (hpc.pc = "started" /\ response'.task = hpc.task_id
                  /\ progress_queue' = progress_queue /\ jobs' = jobs)]_vars

\* the "started" response has just been produced for a job whose runner is
\* already loading the model or past it
C16_Witness ==
    /\ response.kind = "transcribe"
    /\ response.code = 200
    /\ submitted = 1
    /\ \E job \in Jobs :
           job.id = response.task /\ job.rpc \in {"load_model", "transcribe", "engine"}

\* C17: under fair scheduling of the runners, with the model load and the
\* engine call returning, every accepted job reaches a terminal state:
\* whenever an id has a running runner, later it has none.
C17_AcceptedJobTerminates ==
    \A task_id \in TaskIds :
        (ActiveRunners(task_id) > 0) ~> (ActiveRunners(task_id) = 0)

\* C18: an entry leaves the store only by an eviction (the delete of a
\* per-job cleanup thread or of the sweep); a poll that finds the entry and
\* reads it returns it as it is stored, and a poll is answered not_found
\* only when the id is absent from the store.
C18_NotFoundOnlyAfterEviction ==
    [][\A task_id \in TaskIds :
          /\ (Present(task_id) /\ ~Present(task_id)')
                 => \/ \E job \in Jobs : job.id = task_id /\ CleanupDelete(job)
                    \/ SweepRemove(task_id)
          /\ (response'.kind = "progress" /\ response'.task = task_id
                  /\ Present(task_id))
                 => (response'.code = 200 /\ response'.body = progress_queue[task_id])
          /\ (response'.kind = "progress" /\ response'.task = task_id
                  /\ response'.body = NotFoundProgress)
                 => ~Present(task_id)]_vars

\* a poll has just been answered not_found for an id whose entry the
\* cleanup thread of its job has deleted while the runner is still running
C18_Witness ==
    /\ response.kind = "progress"
    /\ response.body = NotFoundProgress
    /\ \E job \in Jobs :
           job.id = response.task /\ job.cpc = "done" /\ job.rpc # "done"

\* the places of a runner thread in transcribe_audio_with_progress
RunnerPositions ==
    {"start", "get_model", "load_model", "transcribe", "engine", "create_srt", "done"}

\* the step is the single store write of the status and progress under the id
Writes(task_id, status, progress) ==
    /\ Present(task_id)'
    /\ progress_queue'[task_id].status = status
    /\ progress_queue'[task_id].progress = progress
    /\ \A other \in TaskIds \ {task_id} :
           /\ Present(other)' = Present(other)
           /\ Present(other) => progress_queue'[other] = progress_queue[other]

\* C27: a runner moves through its run in one order only, and each phase is
\* one single store write: (loading_model, 20) on entering get_model, no
\* write while the model is loaded, (transcribing, 40) once the model is in
\* the cache, no write while the engine reads the file, (generating_srt, 80)
\* once the engine has returned, and (completed, 100) at the end; a runner
\* that leaves this order does so by the write of the error state.
C27_PhasesInOrder ==
    [][\A job \in Jobs, next \in RunnerPositions :
          (/\ next # job.rpc
           /\ Ended([job EXCEPT !.rpc = next])
                 \/ [job EXCEPT !.rpc = next] \in DOMAIN jobs'
           /\ jobs' = Replace(job, [job EXCEPT !.rpc = next]))
              => /\ next # "start"
                 /\ (next = "get_model")
                        => (job.rpc = "start" /\ Writes(job.id, "loading_model", 20))
                 /\ (next = "load_model")
                        => (job.rpc = "get_model" /\ progress_queue' = progress_queue)
                 /\ (next = "transcribe")
                        => /\ job.rpc \in {"get_model", "load_model"}
                           /\ job.model_size \in model_cache'
                           /\ Writes(job.id, "transcribing", 40)
                 /\ (next = "engine")
                        => (job.rpc = "transcribe" /\ progress_queue' = progress_queue)
                 /\ (next = "create_srt")
                        => (job.rpc = "engine" /\ Writes(job.id, "generating_srt", 80))
                 /\ (next = "done")
                        => \/ job.rpc = "create_srt" /\ Writes(job.id, "completed", 100)
                           \/ job.rpc # "start" /\ Writes(job.id, "error", 0)]_vars

\* a runner has ended its run and the entry of its job is the completed one
C27_Witness ==
    \E job \in Jobs :
        /\ job.rpc = "done"
        /\ Present(job.id)
        /\ progress_queue[job.id] = CompletedProgress
        /\ submitted = 1

\* C28: the sweep thread never stops.
C28_SweepNeverStops == sweep.pc # "dead"

\* C29: while a runner is inside the model load or the engine call, the
\* handler can serve a poll of any id, and every other runner that has not
\* ended can take its next step: nothing waits for the blocked runner.
C29_BlockedRunnerBlocksNoOne ==
    \A blocked \in Jobs :
        blocked.rpc \in {"load_model", "engine"}
            => /\ (hpc = Idle) =>
                      \A task_id \in TaskIds :
                          ENABLED (ServeProgressCheck(task_id) /\ UNCHANGED srt_call)
               /\ (hpc.pc = "progress_found") =>
                      ENABLED (ServeProgressRead /\ UNCHANGED srt_call)
               /\ \A other \in Jobs :
                      (other.rpc # "done" /\ (other # blocked \/ jobs[blocked] > 1))
                          => ENABLED (Runner(other) /\ UNCHANGED srt_call)

\* a poll of a job has just been answered while its runner is inside the
\* model load
C29_Witness ==
    /\ response.kind = "progress"
    /\ response.code = 200
    /\ response.body.status = "loading_model"
    /\ \E job \in Jobs : job.id = response.task /\ job.rpc = "load_model"
    /\ \E job \in Jobs : job.id # response.task /\ job.rpc = "start"

\* C30: the temporary file of a job exists as long as the runner of the job
\* has not finished reading it, that is until the engine has returned.
C30_FileOutlivesTheRead ==
    \A job \in Jobs :
        job.rpc \in {"start", "get_model", "load_model", "transcribe", "engine"}
            => FileExists(job)

\* C31: a POST /transcribe that is answered with an error (HTTP 400 or 500)
\* leaves the store as it found it: no entry was created by the request.
C31_ErrorAnswerLeavesNoEntry ==
    [][(/\ response'.kind = "transcribe"
        /\ response'.code \in {400, 500}
        /\ hpc = Idle /\ hpc' = Idle /\ jobs' = jobs /\ now' = now)
           => progress_queue' = progress_queue]_vars

\* the step leaves the entry of the id as it was
Untouched(task_id) ==
    /\ Present(task_id)' = Present(task_id)
    /\ Present(task_id) => progress_queue'[task_id] = progress_queue[task_id]

\* C32: a step of the runner or of the cleanup thread of a job leaves the
\* entry of every other id as it was.
C32_OtherEntriesUntouched ==
    [][\A job \in Jobs :
          (now' = now /\ CopiesIn(job, jobs') < CopiesIn(job, jobs))
              => \A other \in TaskIds \ {job.id} : Untouched(other)]_vars

\* the cleanup thread of a job has deleted the entry of its id while the
\* runner of the job goes on, and the entry of the other id is in the store
C32_Witness ==
    \E job \in Jobs :
        /\ job.cpc = "done"
        /\ job.rpc = "transcribe"
        /\ ~Present(job.id)
        /\ \E other \in TaskIds \ {job.id} :
               Present(other) /\ progress_queue[other].status = "loading_model"

\* C33: every entry of the store has a status, a progress and a message,
\* its progress is an integer of 0..100, and the progress of the statuses
\* loading_model, transcribing, generating_srt and completed is 20, 40, 80
\* and 100.
C33_EntriesWellFormed ==
    \A task_id \in DOMAIN progress_queue :
        LET entry == progress_queue[task_id]
        IN /\ {"status", "progress", "message"} \subseteq DOMAIN entry
           /\ entry.progress \in 0..100
           /\ (entry.status = "loading_model") => (entry.progress = 20)
           /\ (entry.status = "transcribing") => (entry.progress = 40)
           /\ (entry.status = "generating_srt") => (entry.progress = 80)
           /\ (entry.status = "completed") => (entry.progress = 100)

\* the store holds a completed entry and a transcribing entry at once
C33_Witness ==
    /\ Present(IdUuid) /\ progress_queue[IdUuid].status = "completed"
    /\ Present(IdTimer) /\ progress_queue[IdTimer].status = "transcribing"

(* ----------------------- properties of the segmenter ------------------- *)
\* the words of a segment, none when it carries no word timestamps
SegmentWords(segment) ==
    IF "words" \in DOMAIN segment THEN segment.words ELSE <<>>

\* ceil(n / words_per_line)
CueCount(n, words_per_line) == (n + words_per_line - 1) \div words_per_line

\* the number of cues due to the segments before position k
RECURSIVE CuesBefore(_, _, _)
CuesBefore(segments, k, words_per_line) ==
    IF k <= 1 THEN 0
    ELSE CuesBefore(segments, k - 1, words_per_line)
             + CueCount(Len(SegmentWords(segments[k - 1])), words_per_line)

Returned == srt_call.pc = "returned" /\ srt_call.words_per_line > 0

\* C19: for a positive words_per_line, a segment of N timestamped words
\* yields exactly ceil(N / words_per_line) cues, which follow the cues of the
\* segments before it: each starts at the word that opens its group, every
\* cue but the last holds exactly words_per_line words and the last holds
\* the remaining 1..words_per_line words.
C19_CuesPerSegment ==
    Returned =>
        \A k \in 1..Len(srt_call.segments) :
            LET w == srt_call.words_per_line
                words == SegmentWords(srt_call.segments[k])
                count == CueCount(Len(words), w)
                first == CuesBefore(srt_call.segments, k, w)
            IN /\ first + count <= Len(srt_call.cues)
               /\ (k = Len(srt_call.segments)) => (first + count = Len(srt_call.cues))
               /\ \A j \in 1..count :
                      /\ srt_call.cues[first + j].start = words[(j - 1) * w + 1].start
                      /\ Len(srt_call.cues[first + j].line_words)
                             = IF j < count THEN w ELSE Len(words) - w * (count - 1)

\* two segments, the first of three words cut into a full and a short cue
C19_Witness ==
    /\ Returned
    /\ srt_call.words_per_line = 2
    /\ Len(srt_call.segments) = 2
    /\ Len(SegmentWords(srt_call.segments[1])) = 3
    /\ Len(SegmentWords(srt_call.segments[2])) = 2
    /\ Len(srt_call.cues) = 3

\* a word without its surrounding spaces (the words have no inner space)
Trimmed(w) == SelectSeq(w, LAMBDA c : c # " ")

\* the trimmed words of the segments from position k on, in engine order
RECURSIVE AllWords(_, _)
AllWords(segments, k) ==
    IF k > Len(segments) THEN <<>>
    ELSE [n \in 1..Len(SegmentWords(segments[k])) |->
              Trimmed(SegmentWords(segments[k])[n].word)]
             \o AllWords(segments, k + 1)

\* the words of the cues from position j on, in cue order
RECURSIVE CueWords(_, _)
CueWords(cues, j) ==
    IF j > Len(cues) THEN <<>>
    ELSE cues[j].line_words \o CueWords(cues, j + 1)

\* C20: for a positive words_per_line, the words of the cues taken in cue
\* order are exactly the trimmed words of the word-carrying segments in
\* engine order, and so are the cue texts joined by single spaces: no word
\* is dropped, duplicated or reordered.
C20_CuesKeepTheWords ==
    Returned =>
        /\ CueWords(srt_call.cues, 1) = AllWords(srt_call.segments, 1)
        /\ Join([j \in 1..Len(srt_call.cues) |-> srt_call.cues[j].text])
               = Join(AllWords(srt_call.segments, 1))

\* two word-carrying segments of three words each, cut into four cues
C20_Witness ==
    /\ Returned
    /\ srt_call.words_per_line = 2
    /\ Len(srt_call.segments) = 2
    /\ \A k \in 1..2 : Len(SegmentWords(srt_call.segments[k])) = 3
    /\ Len(srt_call.cues) = 4

\* C21: the indices of the cues, in output order, are 1, 2, ..., K.
C21_CueIndicesCount ==
    srt_call.pc = "returned" =>
        \A j \in 1..Len(srt_call.cues) : srt_call.cues[j].index = j

\* two segments of two and three words cut into five cues of one word
C21_Witness ==
    /\ Returned
    /\ srt_call.words_per_line = 1
    /\ Len(srt_call.segments) = 2
    /\ Len(SegmentWords(srt_call.segments[1])) = 2
    /\ Len(SegmentWords(srt_call.segments[2])) = 3
    /\ Len(srt_call.cues) = 5

\* the segments that carry word timestamps
WithWords(segments) == SelectSeq(segments, LAMBDA segment : "words" \in DOMAIN segment)

\* C22: segments without word timestamps do not make the call fail and
\* leave no trace: the cues and the text are those of the same input
\* without them.
C22_SkippedSegmentChangesNothing ==
    srt_call.pc = "returned" =>
        LET other == CreateSrtContent(WithWords(srt_call.segments),
                                      srt_call.words_per_line)
        IN /\ other.returns
           /\ other.cues = srt_call.cues
           /\ other.text = srt_call.text

\* a segment without word timestamps before a segment of three words
C22_Witness ==
    /\ Returned
    /\ Len(srt_call.segments) = 2
    /\ srt_call.segments[1] = NoWordsSegment
    /\ Len(SegmentWords(srt_call.segments[2])) = 3
    /\ Len(srt_call.cues) = 2

\* the smaller of two numbers
Min(a, b) == IF a < b THEN a ELSE b

\* C23: for a positive words_per_line, the j-th cue of a segment holds the
\* words (j-1)*w+1 .. min(j*w, N) of that segment and no other: it starts
\* where the first of them starts, ends where the last of them ends, and
\* its text is these words trimmed and joined by single spaces; the short
\* last group of a segment is a cue of its own.
C23_CueIsOneGroup ==
    Returned =>
        \A k \in 1..Len(srt_call.segments) :
            LET w == srt_call.words_per_line
                words == SegmentWords(srt_call.segments[k])
                first == CuesBefore(srt_call.segments, k, w)
            IN \A j \in 1..CueCount(Len(words), w) :
                   LET from == (j - 1) * w + 1
                       to == Min(j * w, Len(words))
                       cue == srt_call.cues[first + j]
                   IN /\ cue.start = words[from].start
                      /\ cue.end = words[to].end
                      /\ cue.text = Join([n \in 1..(to - from + 1) |->
                                              Trimmed(words[from + n - 1].word)])

\* a segment of three words cut into a full and a short cue, before a
\* segment of one word
C23_Witness ==
    /\ Returned
    /\ srt_call.words_per_line = 2
    /\ Len(srt_call.segments) = 2
    /\ Len(SegmentWords(srt_call.segments[1])) = 3
    /\ Len(SegmentWords(srt_call.segments[2])) = 1
    /\ Len(srt_call.cues) = 3

\* HH:MM:SS,mmm for a time given in decimal milliseconds
Timecode(millis) ==
    ZeroPad(Decimal(millis \div 3600000), 2) \o <<":">>
        \o ZeroPad(Decimal((millis \div 60000) % 60), 2) \o <<":">>
        \o ZeroPad(Decimal((millis \div 1000) % 60), 2) \o <<",">>
        \o ZeroPad(Decimal(millis % 1000), 3)

\* C24: format_timestamp renders a time of s seconds as HH:MM:SS,mmm with
\* mmm the milliseconds of s, SS = floor(s) mod 60, MM = floor(s / 60) mod 60
\* and HH = floor(s / 3600), not wrapped at 24.
C24_RendersTheTime ==
    srt_call.pc = "formatted" => srt_call.text = Timecode(srt_call.millis)

\* C25: one segment of three words timed [0.0, 0.4], [0.5, 0.9], [1.0, 1.4]
\* with words_per_line 2 gives two cues: the first two words from
\* 00:00:00,000 to 00:00:00,900 and the third word alone from 00:00:01,000
\* to 00:00:01,400.
C25_ThreeWordsTwoCues ==
    ( /\ Returned
      /\ srt_call.words_per_line = 2
      /\ Len(srt_call.segments) = 1
      /\ Len(SegmentWords(srt_call.segments[1])) = 3 )
        => LET words == SegmentWords(srt_call.segments[1])
           IN /\ Len(srt_call.cues) = 2
              /\ srt_call.cues[1].timing =
                     <<"0", "0", ":", "0", "0", ":", "0", "0", ",", "0", "0", "0",
                       " ", "-", "-", ">", " ",
                       "0", "0", ":", "0", "0", ":", "0", "0", ",", "9", "0", "0">>
              /\ srt_call.cues[1].text
                     = Trimmed(words[1].word) \o <<" ">> \o Trimmed(words[2].word)
              /\ srt_call.cues[2].timing =
                     <<"0", "0", ":", "0", "0", ":", "0", "1", ",", "0", "0", "0",
                       " ", "-", "-", ">", " ",
                       "0", "0", ":", "0", "0", ":", "0", "1", ",", "4", "0", "0">>
              /\ srt_call.cues[2].text = Trimmed(words[3].word)

\* index, newline, timecodes, newline, text, newline, newline
Block(cue) ==
    Decimal(cue.index) \o <<"\n">> \o cue.timing \o <<"\n">>
        \o cue.text \o <<"\n", "\n">>

RECURSIVE Blocks(_, _)
Blocks(cues, j) ==
    IF j > Len(cues) THEN <<>> ELSE Block(cues[j]) \o Blocks(cues, j + 1)

\* C26 as stated: the text returned is the blocks of the cues in index
\* order, each block, the last too, ending with the blank line.
C26_TextIsBlocks ==
    srt_call.pc = "returned" => srt_call.text = Blocks(srt_call.cues, 1)

\* C26 as amended: the text returned is the blocks of the cues in index
\* order, less the final newline: every block but the last ends with the
\* blank line, the last ends with one newline after its text; no cue gives
\* the empty text.
C26_TextIsBlocksLessFinalNewline ==
    srt_call.pc = "returned" =>
        IF srt_call.cues = <<>> THEN srt_call.text = <<>>
        ELSE srt_call.text \o <<"\n">> = Blocks(srt_call.cues, 1)

\* the text of two cues of one segment
C26_Witness ==
    /\ Returned
    /\ Len(srt_call.segments) = 1
    /\ Len(srt_call.cues) = 2
    /\ srt_call.text # <<>>

\* C34: create_srt_content returns for every list of segments and every
\* words_per_line the handler can pass on (the value of a digit string, 0
\* included): a call that is pending is a call that returns.
C34_SegmenterTerminates ==
    (srt_call.pc = "call")
        => CreateSrtContent(srt_call.segments, srt_call.words_per_line).returns

\* C35: when the handler of the synchronous server has returned, no
\* temporary audio file it created is left on disk.
C35_NoTempFileLeft ==
    (srt_call.pc = "idle") => (srt_call.files = 0)

====
